---- MODULE Spec2Model ----
(***************************************************************************)
(* Playback of precomputed voltage traces by the three NetPyNE scripts:    *)
(*   temporal_summation_experiment.py, inhibitory_version.py               *)
(*   (markers at 21/26/61 ms, highlight 20..35 ms, step 16) and            *)
(*   Excitation-inhibition_AMPA_GABA.py (two traces only, step 10).        *)
(*                                                                         *)
(* Traces are opaque, so a trace is represented by its length and a        *)
(* slice by the number of samples it holds.  Times are in nanoseconds:     *)
(* sample i is recorded at i * dt, dt = 25000 (simConfig.dt = 0.025 ms).   *)
(* The recorded value is the simulator's floating-point clock, which the   *)
(* scripts do not compute: every read of time[i] is a choice between just  *)
(* below, exactly at and just above i * dt.                                *)
(* The matplotlib timer that drives FuncAnimation is modelled by the two   *)
(* halves of its _step: deliver the next frame, or, when the frame         *)
(* sequence is exhausted and repeat=True, call init and start over.        *)
(*                                                                         *)
(* sim.allSimData comes from NetPyNE, which is no part of the scripts:     *)
(* whether a lookup of a missing key raises KeyError or creates an empty   *)
(* mapping depends on the class of the container, so every such lookup is  *)
(* a choice between the two.                                               *)
(***************************************************************************)
EXTENDS Integers, Sequences, FiniteSets, TLC

VARIABLES
    script,          \* which of the three scripts runs
    allSimData,      \* what the simulator returned: sim.allSimData
    pc,              \* "extract", "setup", "running", "closed", "done", "raised", "finished"
    time,            \* len(time)
    V_wide,          \* len(V_wide)   (V_A in the excitation-inhibition script)
    V_narrow,        \* len(V_narrow) (V_B in the excitation-inhibition script)
    line_wide,       \* <<len(x), len(y)>> last given to line_wide.set_data
    line_narrow,     \* <<len(x), len(y)>> last given to line_narrow.set_data
    stim_lines,      \* the marker list: sequence of marker positions in ms
    summation_patch, \* summation_patch.get_visible()
    frame_seq,       \* next frame the animation's frame iterator yields
    idx,             \* idx computed by the most recent update call
    revealed,        \* <<time[idx-1]>> as the most recent update read it, <<>> if it read none
    lastTick         \* what the last timer tick did: "none", "update", "restart"

vars == <<script, allSimData, pc, time, V_wide, V_narrow, line_wide, line_narrow,
          stim_lines, summation_patch, frame_seq, idx, revealed, lastTick>>

----------------------------------------------------------------------------
(* Bounds of the model *)

\* trace lengths 0..MaxShortLen are all tried
MaxShortLen == 24

\* shorter runs of 5, 10, ... ms are tried up to 5 * MaxShortRun ms
MaxShortRun == 7

----------------------------------------------------------------------------
(* Constants of the scripts *)

\* simConfig.dt = 0.025 ms, in nanoseconds
dt == 25000

\* simConfig.duration of the two summation scripts, ms
duration == 200

\* simConfig.duration of the excitation-inhibition script, ms
duration_AB == 120

\* nanoseconds per millisecond: plot positions and thresholds are in ms
NsPerMs == 1000000

Temporal == "temporal_summation_experiment"
Inhibitory == "inhibitory_version"
ExcInh == "Excitation-inhibition_AMPA_GABA"

Scripts == {Temporal, Inhibitory, ExcInh}

\* the two scripts that draw markers and the highlight
Annotated == {Temporal, Inhibitory}

\* step inside update
step == [s \in Scripts |-> IF s = ExcInh THEN 10 ELSE 16]

\* markers drawn by ax.axvline, in ms, in the order update tests them
Markers == <<21, 26, 61>>

\* ax.axvspan(20, 35) and the window tested by update, in ms
Window == <<20, 35>>

\* FuncAnimation(..., repeat=True)
repeat_off == FALSE
repeat == TRUE

----------------------------------------------------------------------------
(* Python helpers *)

Min(a, b) == IF a <= b THEN a ELSE b
Max(a, b) == IF a >= b THEN a ELSE b

\* len(seq[:k]) for a sequence of n items
slice_len(n, k) == IF k >= 0 THEN Min(k, n) ELSE Max(n + k, 0)

\* position read by seq[i] for a sequence of n items; -1 when IndexError
py_index(i, n) ==
    LET j == IF i < 0 THEN i + n ELSE i
    IN  IF 0 <= j /\ j < n THEN j ELSE -1

\* time[i] as one read finds it, nanoseconds: the simulator's clock starts
\* at 0 and every later sample is i * dt give or take r, the rounding of
\* the floating-point clock
time_at(i, r) == IF i = 0 THEN 0 ELSE i * dt + r

\* int(T / dt) for T in ms
int_div_dt(T) == (T * NsPerMs) \div dt

\* number of samples recorded for a run of d ms: t = 0, dt, ..., d
samples(d) == (d * NsPerMs) \div dt + 1

Range(s) == {s[i] : i \in DOMAIN s}

----------------------------------------------------------------------------
(* Simulator output *)

Cells == {"cell_0", "cell_1"}

\* simConfig.duration of each script
run_duration == [s \in Scripts |-> IF s = ExcInh THEN duration_AB ELSE duration]

\* len(allSimData['t']) in script s: its own run (8001 samples for 200 ms,
\* 4801 for 120 ms), the shorter runs of 5, 10, ... ms, and every short
\* length, the empty trace included
Lengths(s) ==
    (0 .. MaxShortLen)
        \cup {samples(5 * k) : k \in 1 .. MaxShortRun}
        \cup {samples(run_duration[s])}

\* len of a channel recorded next to n times: empty, cut short, as long as
\* the times
ChannelLens(n) == {0, n \div 3, n}

\* what 'V_soma' is in allSimData: no such key, a dict, or another mapping
V_soma_kinds == {"absent", "dict", "mapping"}

\* rounding of a recorded time against i * dt, ns: below, exact, above
Roundings == {-1, 0, 1}

\* the lengths of the two cells' traces in a 'V_soma' of this kind holding
\* these keys, next to n times; a mapping that is no dict is tried with
\* traces as long as the times
CellLens(kind, n, cells) ==
    {f \in [Cells -> ChannelLens(n)] :
        \A c \in Cells :
            IF c \in cells
            THEN kind = "dict" \/ f[c] = n
            ELSE f[c] = 0}

\* sim.allSimData.  has_t: the key 't' is there; t: len(allSimData['t']);
\* V_soma: what the key 'V_soma' holds; cells: the keys of that mapping;
\* len: the length of each cell's trace.
Outputs(h, n) ==
    UNION {UNION {{[has_t |-> h, t |-> n, V_soma |-> k,
                    cells |-> c, len |-> f] : f \in CellLens(k, n, c)} :
                  c \in (IF k = "absent" THEN {{}} ELSE SUBSET Cells)} :
           k \in V_soma_kinds}

SimOutputs(s) ==
    Outputs(FALSE, 0) \cup UNION {Outputs(TRUE, n) : n \in Lengths(s)}

Init ==
    /\ script \in Scripts
    /\ allSimData \in SimOutputs(script)
    /\ pc = "extract"
    /\ time = 0
    /\ V_wide = 0
    /\ V_narrow = 0
    /\ line_wide = <<0, 0>>
    /\ line_narrow = <<0, 0>>
    /\ stim_lines = <<>>
    /\ summation_patch = FALSE
    /\ frame_seq = 0
    /\ idx = 0
    /\ revealed = <<>>
    /\ lastTick = "none"

----------------------------------------------------------------------------
(* Extraction of the traces *)

\* the simulator output holds a trace under 'V_soma' for this cell
present(cell) == allSimData.V_soma # "absent" /\ cell \in allSimData.cells

\* sim.allSimData['V_soma'].get(cell, [])
get(cell) == IF cell \in allSimData.cells THEN allSimData.len[cell] ELSE 0

\* sim.allSimData['t'] does not raise: the key is there, or the container
\* creates missing keys (o)
t_found(o) == allSimData.has_t \/ o

\* sim.allSimData['V_soma'][cell] does not raise: the trace is there, or
\* the container that lacks the key creates it: sim.allSimData (o), which
\* then creates 'V_soma' as a container of its own class, or the mapping
\* under 'V_soma' (n)
cell_found(cell, o, n) ==
    \/ present(cell)
    \/ IF allSimData.V_soma = "absent" THEN o ELSE n

\* the summation scripts: allSimData['t'] (KeyError, or an empty mapping
\* created in its place, when absent), then a guarded lookup, [] when
\* 'V_soma' is not there or is no dict
ExtractGuarded ==
    /\ pc = "extract"
    /\ script \in Annotated
    /\ \E o \in BOOLEAN :
         IF ~t_found(o)
         THEN pc' = "raised" /\ UNCHANGED <<time, V_wide, V_narrow>>
         ELSE /\ time' = IF allSimData.has_t THEN allSimData.t ELSE 0
              /\ IF allSimData.V_soma = "dict"
                 THEN V_wide' = get("cell_0") /\ V_narrow' = get("cell_1")
                 ELSE V_wide' = 0 /\ V_narrow' = 0
              /\ pc' = "setup"
    /\ UNCHANGED <<script, allSimData, line_wide, line_narrow, stim_lines,
                   summation_patch, frame_seq, idx, revealed, lastTick>>

\* the excitation-inhibition script: three plain subscripts in a row, each
\* raising KeyError or creating an empty mapping when the key is absent
ExtractSubscript ==
    /\ pc = "extract"
    /\ script = ExcInh
    /\ \E o, n \in BOOLEAN :
         LET got_t == t_found(o)
             got_A == got_t /\ cell_found("cell_0", o, n)
             got_B == got_A /\ cell_found("cell_1", o, n)
         IN  /\ time' = IF ~got_t THEN time
                        ELSE IF allSimData.has_t THEN allSimData.t ELSE 0
             /\ V_wide' = IF got_A THEN get("cell_0") ELSE V_wide
             /\ V_narrow' = IF got_B THEN get("cell_1") ELSE V_narrow
             /\ pc' = IF got_B THEN "setup" ELSE "raised"
    /\ UNCHANGED <<script, allSimData, line_wide, line_narrow, stim_lines,
                   summation_patch, frame_seq, idx, revealed, lastTick>>

\* time is a sequence, not a mapping created for the missing key 't'
sliceable_time == allSimData.has_t

\* V_A / V_B of the excitation-inhibition script is a sequence, not a
\* mapping created for a missing key
sliceable(cell) == present(cell)

----------------------------------------------------------------------------
(* Animation callbacks *)

\* for sl in stim_lines: sl.remove(); stim_lines.clear()
cleared_keep(lines) == lines
cleared(lines) == <<>>

\* init(): empty both lines; the summation scripts also drop the markers
\* and hide the highlight
init ==
    /\ line_wide' = <<0, 0>>
    /\ line_narrow' = <<0, 0>>
    /\ IF script \in Annotated
       THEN stim_lines' = cleared(stim_lines) /\ summation_patch' = FALSE
       ELSE UNCHANGED <<stim_lines, summation_patch>>

\* idx = min(frame * step, len(time))
reveal_unclamped(frame, st, n) == frame * st
reveal(frame, st, n) == Min(frame * st, n)

\* if idx >= int(T / dt) and len(stim_lines) < k: stim_lines.append(axvline(T))
add_marker_unguarded(lines, i, k) ==
    IF i >= int_div_dt(Markers[k]) THEN Append(lines, Markers[k]) ELSE lines
add_marker(lines, i, k) ==
    IF i >= int_div_dt(Markers[k]) /\ Len(lines) < k
    THEN Append(lines, Markers[k])
    ELSE lines

\* the three marker tests of update, in order
markers_after(lines, i) == add_marker(add_marker(add_marker(lines, i, 1), i, 2), i, 3)

\* idx > 0, the left operand of the highlight test: decides whether time[idx-1] is read
has_revealed_always(i) == TRUE
has_revealed(i) == i > 0

\* 20 <= t <= 35, t in nanoseconds
in_window(t) == Window[1] * NsPerMs <= t /\ t <= Window[2] * NsPerMs

\* the argument of summation_patch.set_visible: idx > 0 and
\* 20 <= time[idx-1] <= 35, read being <<time[idx-1]>> when it was read
set_visible(i, read) == has_revealed(i) /\ in_window(read[1])

\* update(frame) of the summation scripts; time[:idx] raises TypeError
\* when time is a mapping
update(frame) ==
    \E r \in Roundings :
        LET i == reveal(frame, step[script], time)
            j == py_index(i - 1, time)
            read == IF has_revealed(i) /\ j # -1 THEN <<time_at(j, r)>> ELSE <<>>
        IN  /\ idx' = i
            /\ IF ~sliceable_time
               THEN /\ pc' = "raised"
                    /\ UNCHANGED <<line_wide, line_narrow, stim_lines,
                                   revealed, summation_patch>>
               ELSE /\ line_wide' = <<slice_len(time, i), slice_len(V_wide, i)>>
                    /\ line_narrow' = <<slice_len(time, i), slice_len(V_narrow, i)>>
                    /\ stim_lines' = markers_after(stim_lines, i)
                    /\ revealed' = read
                    /\ IF has_revealed(i) /\ j = -1
                       THEN pc' = "raised" /\ UNCHANGED summation_patch
                       ELSE pc' = pc /\ summation_patch' = set_visible(i, read)

\* update(frame) of the excitation-inhibition script; slicing a mapping
\* raises TypeError: in the first set_data for time or V_A, in the second
\* for V_B
update_AB(frame) ==
    LET i == reveal(frame, step[script], time)
        ok_A == sliceable_time /\ sliceable("cell_0")
        ok_B == ok_A /\ sliceable("cell_1")
    IN  /\ idx' = i
        /\ line_wide' = IF ok_A THEN <<slice_len(time, i), slice_len(V_wide, i)>>
                        ELSE line_wide
        /\ line_narrow' = IF ok_B THEN <<slice_len(time, i), slice_len(V_narrow, i)>>
                          ELSE line_narrow
        /\ pc' = IF ok_B THEN pc ELSE "raised"
        /\ UNCHANGED <<stim_lines, summation_patch, revealed>>

\* frames given to FuncAnimation
num_frames ==
    IF script = ExcInh THEN time \div 10 ELSE (time \div 8) + 20

\* FuncAnimation(...) and plt.show(): the animation starts with init()
Start ==
    /\ pc = "setup"
    /\ init
    /\ pc' = "running"
    /\ frame_seq' = 0
    /\ UNCHANGED <<script, allSimData, time, V_wide, V_narrow, idx, revealed,
                   lastTick>>

\* a timer tick with a frame left: update(next frame)
StepFrame ==
    /\ pc = "running"
    /\ frame_seq < num_frames
    /\ IF script = ExcInh THEN update_AB(frame_seq) ELSE update(frame_seq)
    /\ frame_seq' = frame_seq + 1
    /\ lastTick' = "update"
    /\ UNCHANGED <<script, allSimData, time, V_wide, V_narrow>>

\* a timer tick with the frames exhausted: repeat restarts with init()
StepRepeat ==
    /\ pc = "running"
    /\ frame_seq >= num_frames
    /\ IF repeat
       THEN /\ init
            /\ frame_seq' = 0
            /\ lastTick' = "restart"
            /\ pc' = pc
       ELSE /\ pc' = "finished"
            /\ UNCHANGED <<line_wide, line_narrow, stim_lines, summation_patch,
                           frame_seq, lastTick>>
    /\ UNCHANGED <<script, allSimData, time, V_wide, V_narrow, idx, revealed>>

Tick == StepFrame \/ StepRepeat

\* the window is closed: plt.show() returns, no further tick
Close ==
    /\ pc = "running"
    /\ pc' = "closed"
    /\ UNCHANGED <<script, allSimData, time, V_wide, V_narrow, line_wide,
                   line_narrow, stim_lines, summation_patch, frame_seq, idx,
                   revealed, lastTick>>

\* after plt.show() the excitation-inhibition script prints max(V_A) and
\* min(V_B): ValueError on an empty trace or mapping.  The summation
\* scripts end at plt.show().
Summary ==
    /\ pc = "closed"
    /\ script = ExcInh
    /\ pc' = IF V_wide = 0 \/ V_narrow = 0 THEN "raised" ELSE "done"
    /\ UNCHANGED <<script, allSimData, time, V_wide, V_narrow, line_wide,
                   line_narrow, stim_lines, summation_patch, frame_seq, idx,
                   revealed, lastTick>>

Next ==
    \/ ExtractGuarded
    \/ ExtractSubscript
    \/ Start
    \/ StepFrame
    \/ StepRepeat
    \/ Close
    \/ Summary

Spec == Init /\ [][Next]_vars

\* the timer keeps delivering ticks while the window is open
FairSpec == Spec /\ WF_vars(Tick)

----------------------------------------------------------------------------
(* Observers used by the properties *)

\* this step is a tick that called update
IsUpdate == pc = "running" /\ frame_seq' = frame_seq + 1

\* this step is a tick that restarted the cycle
IsRestart ==
    /\ pc = "running"
    /\ pc' = "running"
    /\ frame_seq' = 0
    /\ lastTick' = "restart"

\* the last revealed time time[idx-1], as update read it, is at least T ms
revealed_at_least(read, T) == read # <<>> /\ read[1] >= T * NsPerMs

ceil_div(n, s) == (n + s - 1) \div s

IsPrefix(s, t) == Len(s) <= Len(t) /\ SubSeq(t, 1, Len(s)) = s

NoDuplicates(s) == \A a, b \in DOMAIN s : a # b => s[a] # s[b]

\* the script holds the simulator's trace of this cell, not a substitute:
\* the summation scripts read it only out of a dict
extracted(cell) ==
    /\ present(cell)
    /\ script \in Annotated => allSimData.V_soma = "dict"

\* the script plays sequences: the times, and in the excitation-inhibition
\* script both traces, were found in the simulator output and not created
\* as empty mappings by the lookup
traces_held ==
    /\ sliceable_time
    /\ script = ExcInh => (sliceable("cell_0") /\ sliceable("cell_1"))

\* length of the trace the script holds for this cell
held(cell) == IF extracted(cell) THEN allSimData.len[cell] ELSE 0

----------------------------------------------------------------------------
(* C1 *)

\* C1: within a cycle the reveal indices of successive update calls never
\* decrease, update(frame) yields idx = N exactly from frame ceil(N/step)
\* on, and every cycle gets there: when the cycle restarts, idx is N.
C1_IdxReachesN ==
    [][ /\ (IsUpdate /\ lastTick = "update") => idx' >= idx
        /\ IsUpdate =>
             (idx' = time <=> frame_seq >= ceil_div(time, step[script]))
        /\ IsRestart => idx = time ]_vars

----------------------------------------------------------------------------
(* C2 *)

\* C2: for each threshold T of 21, 26, 61 ms, a tick adds the marker for T
\* only if its last revealed time time[idx-1] is at least T, the marker is
\* absent on every tick whose revealed time is below T, present from the
\* first tick whose revealed time is at least T, and never added twice.
C2_MarkerAtThreshold ==
    [][ (IsUpdate /\ script \in Annotated) =>
          \A k \in DOMAIN Markers :
            LET T == Markers[k]
                n == Cardinality({p \in DOMAIN stim_lines' : stim_lines'[p] = T})
            IN  /\ revealed_at_least(revealed', T) => n = 1
                /\ ~revealed_at_least(revealed', T) => n = 0 ]_vars

----------------------------------------------------------------------------
(* C3 *)

----------------------------------------------------------------------------
(* C4 *)

\* C4: the restart tick leaves the marker list empty and the highlight
\* hidden; the tick after it is update(0) with idx = 0, no marker and no
\* highlight; and a marker is in the list after an update only if this
\* cycle's idx has passed its threshold again.
C4_RestartClearsAnnotations ==
    [][ /\ IsRestart => (stim_lines' = <<>> /\ ~summation_patch')
        /\ (IsUpdate /\ lastTick = "restart") =>
             (idx' = 0 /\ stim_lines' = <<>> /\ ~summation_patch')
        /\ IsUpdate =>
             \A T \in Range(stim_lines') : idx' >= int_div_dt(T) ]_vars

\* a cycle that drew all three markers has just been restarted
C4_Witness ==
    /\ lastTick = "restart"
    /\ script \in Annotated
    /\ idx = time
    /\ idx >= int_div_dt(Markers[3])
    /\ stim_lines = <<>>
    /\ ~summation_patch

----------------------------------------------------------------------------
(* C5 *)

\* C5: an update only appends to the marker list, so a fired marker stays
\* through the last frame of the cycle; the list shrinks only on the
\* restart tick; it never holds a threshold twice nor more than three.
C5_MarkersAppendOnly ==
    [][ /\ IsUpdate => IsPrefix(stim_lines, stim_lines')
        /\ ~IsPrefix(stim_lines, stim_lines') => IsRestart
        /\ NoDuplicates(stim_lines')
        /\ Len(stim_lines') <= 3 ]_vars

\* the last frame of a cycle, fully revealed, with all three markers drawn
C5_Witness ==
    /\ lastTick = "update"
    /\ frame_seq = num_frames
    /\ idx = time
    /\ stim_lines = Markers

----------------------------------------------------------------------------
(* C6 *)

\* C6: in every script, when the simulator output has the times but lacks
\* a channel (no 'V_soma', or no key for the cell) nothing raises, the
\* absent channel's trace is empty, and after each update the other
\* channel shows what it shows when nothing is missing: the first idx
\* samples of the trace the script read.
C6_MissingChannelDegrades ==
    (allSimData.has_t /\ (~present("cell_0") \/ ~present("cell_1"))) =>
        /\ pc # "raised"
        /\ pc \notin {"extract", "raised"} =>
             /\ V_wide = held("cell_0")
             /\ V_narrow = held("cell_1")
        /\ lastTick = "update" =>
             /\ extracted("cell_0") => line_wide = <<idx, Min(idx, held("cell_0"))>>
             /\ extracted("cell_1") => line_narrow = <<idx, Min(idx, held("cell_1"))>>

----------------------------------------------------------------------------
(* C7 *)

----------------------------------------------------------------------------
(* C8 *)

----------------------------------------------------------------------------
(* C9 *)

\* C9 as stated: after every update 0 <= idx <= N and both parts of each
\* channel's slice hold exactly idx samples, absent channels included.
C9_AllSlicesIdx ==
    lastTick = "update" =>
        /\ 0 <= idx /\ idx <= time
        /\ line_wide = <<idx, idx>>
        /\ line_narrow = <<idx, idx>>

\* C9 amended: after every update 0 <= idx <= N, the time part of each
\* channel's slice holds exactly idx samples, and the value part holds the
\* first idx samples of the trace the script holds for the channel: idx of
\* them when that trace is at least idx long, all L of them when it is
\* shorter (L < idx), none for a channel replaced by an empty sequence.
C9_SliceLengths ==
    lastTick = "update" =>
        /\ 0 <= idx /\ idx <= time
        /\ line_wide = <<idx, IF held("cell_0") >= idx THEN idx ELSE held("cell_0")>>
        /\ line_narrow = <<idx, IF held("cell_1") >= idx THEN idx ELSE held("cell_1")>>

\* a fully revealed frame with one channel absent and the other cut short
C9_Witness ==
    /\ lastTick = "update"
    /\ ~present("cell_0")
    /\ extracted("cell_1")
    /\ idx = time
    /\ idx > step[script]
    /\ held("cell_1") < idx
    /\ held("cell_1") > 0
    /\ line_wide = <<idx, 0>>
    /\ line_narrow = <<idx, held("cell_1")>>

----------------------------------------------------------------------------
(* C10 *)

\* C10: a restart happens only once idx has reached N, and the tick after
\* an update with idx = N is the restart, so the fully revealed frame is
\* shown on one tick per cycle.
C10_CycleEndsAtN ==
    [][ /\ IsRestart => idx = time
        /\ (IsUpdate /\ lastTick = "update") => idx < time ]_vars

====
